---------------------------- MODULE Spec2Model ----------------------------
(***************************************************************************)
(* Day-before explosion scanner (src/app.py, the script that starts at     *)
(* line 66): resolution of the ticker universe through the datahub /       *)
(* Wikipedia / embedded-list chain, then the per-ticker scan loop that      *)
(* downloads a daily series, attaches the indicator columns and tests the  *)
(* second-to-last row against the explosion criteria.                      *)
(*                                                                         *)
(* Numbers.  Prices and the 0..100 indicators are fixed-point thousandths  *)
(* (Mills), so that 39.999 < 40 and round(x, 2) are expressible.  Volumes  *)
(* are whole shares.  The Vol10Avg column holds the total of its 10-row    *)
(* window: the mean is that total over VolWindow, and every comparison     *)
(* with it is cross-multiplied by VolWindow, which keeps the mean exact.   *)
(* A float not-a-number is the value NaN; every comparison with it is      *)
(* false, as in Python.                                                    *)
(***************************************************************************)
EXTENDS Integers, Sequences, FiniteSets, TLC

VARIABLES
    pc,            \* position in the script
    tickers,       \* the list `tickers` (lines 85, 94, 101)
    consulted,     \* history: the ticker sources tried so far, with their outcome
    i,             \* number of loop iterations completed (the loop's next index)
    scan_results,  \* the list `scan_results` (line 128)
    matchedAt,     \* history: universe position that produced each record
    attempted,     \* history: the symbols handed to yf.download, in order
    feed,          \* what the data provider and the ta library gave this iteration
    cur            \* what the last loop iteration did

vars == <<pc, tickers, consulted, i, scan_results, matchedAt, attempted, feed, cur>>

---------------------------------------------------------------------------
(* Bounds of the model *)

\* longest symbol column a remote source returns
MaxRows == 2

\* a downloaded series has at most MinBars + MaxExtraBars rows
MaxExtraBars == 1

\* the readings tried differ from the example bar in at most this many places
MaxDeviations == 3

---------------------------------------------------------------------------
(* Program constants *)

min_price == 3

max_price == 15

min_volume == 500000

min_adx == 40

\* if len(df) < 20
MinBars == 20

\* df["Volume"].rolling(window=10)
VolWindow == 10

\* thousandths: the fixed-point unit of prices and indicators
Mills == 10 * 10 * 10

\* a float not-a-number (an indicator whose lookback is not satisfied)
NaN == 0 - 2000000000

\* float infinity (numpy's x / 0.0 for x > 0)
Inf == 2000000000 + 0

IsNaN(x) == x = NaN

---------------------------------------------------------------------------
(* Float comparisons and arithmetic, NaN-aware *)

Le(a, b) == ~IsNaN(a) /\ ~IsNaN(b) /\ a <= b

Ge(a, b) == ~IsNaN(a) /\ ~IsNaN(b) /\ a >= b

\* Gt with the strict comparison written as >=
GtOrEqual(a, b) == ~IsNaN(a) /\ ~IsNaN(b) /\ a >= b

\* Gt with a missing value read as 0 (fillna(0)) before comparing
GtNaNAsZero(a, b) ==
    (IF IsNaN(a) THEN 0 ELSE a) > (IF IsNaN(b) THEN 0 ELSE b)

Gt(a, b) == ~IsNaN(a) /\ ~IsNaN(b) /\ a > b

Sub(a, b) == IF IsNaN(a) \/ IsNaN(b) THEN NaN ELSE a - b

Times(k, a) == IF IsNaN(a) THEN NaN ELSE k * a

\* n / d rounded to the nearest integer, ties to the even one (n >= 0, d > 0)
RoundDiv(n, d) ==
    LET q == n \div d
        r == n % d
    IN  IF 2 * r < d THEN q
        ELSE IF 2 * r > d THEN q + 1
        ELSE IF q % 2 = 0 THEN q ELSE q + 1

\* round(x, 2) of a value in thousandths: the result is in hundredths
Round2(x) == IF IsNaN(x) THEN NaN ELSE RoundDiv(x, 10)


---------------------------------------------------------------------------
(* Ticker universe: the sources and their fallback chain (lines 79-109) *)

\* a row of a symbol column that is not a string (a missing cell reads as float nan)
NonStr == "<float nan>"

\* the symbols a remote source may list
PayloadSymbols == {"AAPL", "BRK.B", "BRK-B", NonStr}

\* the symbol columns a remote source may return, the empty column included
Payloads == UNION {[1..n -> PayloadSymbols] : n \in 0..MaxRows}

\* the classes deriving from Exception that the environment raises
ExceptionClasses ==
    {"URLError", "ParserError", "ImportError", "KeyError", "IndexError",
     "AttributeError", "TypeError", "ValueError", "TimeoutError"}

NoExc == "none"

\* pd.read_csv(url) then tickers_df["Symbol"].tolist(): raises, or yields a column
PrimaryOutcomes ==
    {[exc |-> e, rows |-> <<>>] : e \in {"URLError", "ParserError", "KeyError"}}
    \cup {[exc |-> NoExc, rows |-> p] : p \in Payloads}

\* pd.read_html(url)[0] then sp500_table['Symbol'].tolist()
SecondaryOutcomes ==
    {[exc |-> e, rows |-> <<>>] :
        e \in {"URLError", "ImportError", "IndexError", "KeyError"}}
    \cup {[exc |-> NoExc, rows |-> p] : p \in Payloads}

\* t.replace('.', '-') on the symbols of the model (strings are atomic here)
Clean(t) ==
    CASE t = "BRK.B" -> "BRK-B"
      [] OTHER -> t

\* [t.replace('.', '-') for t in tickers]: a non-string row has no .replace
CleanRaises(rows) == \E k \in 1..Len(rows) : rows[k] = NonStr

CleanAll(rows) == [k \in 1..Len(rows) |-> Clean(rows[k])]

\* the embedded list with one symbol typed twice
SampleTickersRepeated ==
    <<"AAPL", "MSFT", "GOOGL", "AMZN", "TSLA", "META", "NVDA", "NFLX",
      "ADBE", "CRM", "PYPL", "INTC", "AMD", "QCOM", "TXN", "AVGO",
      "ORCL", "IBM", "NOW", "INTU", "MU", "AMAT", "ADI", "LRCX",
      "KLAC", "MCHP", "SNPS", "CDNS", "FTNT", "PANW", "CRWD", "ZS",
      "DDOG", "NET", "SNOW", "PLTR", "COIN", "SQ", "SHOP", "ROKU",
      "ZM", "DOCU", "OKTA", "TWLO", "SPLK", "WORK", "DBX", "CRM">>

\* the embedded list of lines 101-108
SampleTickers ==
    <<"AAPL", "MSFT", "GOOGL", "AMZN", "TSLA", "META", "NVDA", "NFLX",
      "ADBE", "CRM", "PYPL", "INTC", "AMD", "QCOM", "TXN", "AVGO",
      "ORCL", "IBM", "NOW", "INTU", "MU", "AMAT", "ADI", "LRCX",
      "KLAC", "MCHP", "SNPS", "CDNS", "FTNT", "PANW", "CRWD", "ZS",
      "DDOG", "NET", "SNOW", "PLTR", "COIN", "SQ", "SHOP", "ROKU",
      "ZM", "DOCU", "OKTA", "TWLO", "SPLK", "WORK", "DBX", "BOX">>

\* `except Exception as e` (lines 87 and 97)
LoadCatches(e) == e \in ExceptionClasses

\* lines 81-89: the primary source
LoadPrimary ==
    /\ pc = "primary"
    /\ \E r \in PrimaryOutcomes :
          /\ consulted' = Append(consulted, [source |-> "datahub", ok |-> r.exc = NoExc])
          /\ IF r.exc = NoExc
                THEN /\ tickers' = r.rows
                     /\ pc' = "scan"
                ELSE /\ tickers' = tickers
                     /\ pc' = IF LoadCatches(r.exc) THEN "wikipedia" ELSE "crashed"
    /\ UNCHANGED <<i, scan_results, matchedAt, attempted, feed, cur>>

\* lines 91-99: the secondary source, its symbols cleaned for yfinance
LoadWikipedia ==
    /\ pc = "wikipedia"
    /\ \E r \in SecondaryOutcomes :
          LET exc == IF r.exc # NoExc THEN r.exc
                     ELSE IF CleanRaises(r.rows) THEN "AttributeError"
                     ELSE NoExc
          IN  /\ consulted' = Append(consulted, [source |-> "wikipedia", ok |-> exc = NoExc])
              /\ IF exc = NoExc
                    THEN /\ tickers' = CleanAll(r.rows)
                         /\ pc' = "scan"
                    ELSE \* line 94 has bound `tickers` when line 95 raises
                         /\ tickers' = IF r.exc = NoExc THEN r.rows ELSE tickers
                         /\ pc' = IF LoadCatches(exc) THEN "sample" ELSE "crashed"
    /\ UNCHANGED <<i, scan_results, matchedAt, attempted, feed, cur>>

\* lines 100-109: the embedded list
LoadSample ==
    /\ pc = "sample"
    /\ consulted' = Append(consulted, [source |-> "sample", ok |-> TRUE])
    /\ tickers' = SampleTickers
    /\ pc' = "scan"
    /\ UNCHANGED <<i, scan_results, matchedAt, attempted, feed, cur>>

---------------------------------------------------------------------------
(* The downloaded series and its indicator columns (lines 137-157) *)

\* df["Volume"].rolling(window=10) needs 10 rows, none of them missing
RECURSIVE SumVolume(_, _, _)
SumVolume(bars, lo, hi) ==
    IF lo > hi THEN 0 ELSE bars[lo].Volume + SumVolume(bars, lo + 1, hi)

\* Rolling with the window shifted one row back, the row's own volume left out
RollingShifted(bars, k) ==
    IF k - 1 < VolWindow THEN NaN
    ELSE IF \E j \in (k - VolWindow)..(k - 1) : IsNaN(bars[j].Volume) THEN NaN
    ELSE SumVolume(bars, k - VolWindow, k - 1)

\* the Vol10Avg column at row k, times VolWindow: the total of rows k-9..k
Rolling(bars, k) ==
    IF k < VolWindow THEN NaN
    ELSE IF \E j \in (k - VolWindow + 1)..k : IsNaN(bars[j].Volume) THEN NaN
    ELSE SumVolume(bars, k - VolWindow + 1, k)

\* row k of df once the indicator columns are attached
Row(bars, ta, k) ==
    [Close |-> bars[k].Close, Volume |-> bars[k].Volume,
     RSI |-> ta[k].RSI, ADX |-> ta[k].ADX,
     PlusDI |-> ta[k].PlusDI, MinusDI |-> ta[k].MinusDI,
     K |-> ta[k].K, D |-> ta[k].D,
     Vol10Avg |-> Rolling(bars, k)]

NoRow ==
    [Close |-> NaN, Volume |-> NaN, RSI |-> NaN, ADX |-> NaN, PlusDI |-> NaN,
     MinusDI |-> NaN, K |-> NaN, D |-> NaN, Vol10Avg |-> NaN]

\* TooShort with only an empty frame skipped (if len(df) < 1)
TooShortOnlyEmpty(n) == n < 1

\* if len(df) < 20: continue
TooShort(n) == n < MinBars

\* df.iloc[-2] of an n-row frame, as a 1-based position (0: IndexError)
YesterdayIndex(n) == n - 1

---------------------------------------------------------------------------
(* The explosion criteria and the result record (lines 160-183) *)

ExplosionCriteria(y) ==
    /\ Le(min_price * Mills, y.Close)
    /\ Le(y.Close, max_price * Mills)
    /\ Gt(y.Volume, min_volume)
    /\ Ge(y.ADX, min_adx * Mills)
    /\ Ge(Sub(y.PlusDI, y.MinusDI), 10 * Mills)
    /\ Le(60 * Mills, y.RSI)
    /\ Le(y.RSI, 75 * Mills)
    /\ Gt(y.K, 70 * Mills)
    /\ Gt(y.K, y.D)
    /\ Gt(Times(VolWindow, y.Volume), Times(2, y.Vol10Avg))

\* round(Volume / Vol10Avg, 2), in hundredths; numpy divides by 0.0 without raising
VolRatio(y) ==
    IF y.Vol10Avg = 0 THEN (IF y.Volume = 0 THEN NaN ELSE Inf)
    ELSE RoundDiv(y.Volume * VolWindow * 100, y.Vol10Avg)

\* int(nan) raises ValueError while the record is being built
RecordRaises(y) == IsNaN(y.Volume) \/ IsNaN(y.Vol10Avg)

\* the dict of lines 170-183; rounded fields are in hundredths
MatchRecord(ticker, y) ==
    [Ticker |-> ticker,
     Price |-> Round2(y.Close),
     ADX |-> Round2(y.ADX),
     PlusDI |-> Round2(y.PlusDI),
     MinusDI |-> Round2(y.MinusDI),
     DI_Diff |-> Round2(Sub(y.PlusDI, y.MinusDI)),
     RSI |-> Round2(y.RSI),
     K |-> Round2(y.K),
     D |-> Round2(y.D),
     Volume |-> y.Volume,
     Vol10Avg |-> IF IsNaN(y.Vol10Avg) THEN NaN ELSE y.Vol10Avg \div VolWindow,
     Vol_Ratio |-> IF RecordRaises(y) THEN NaN ELSE VolRatio(y)]

\* AddResult with the record inserted at the front
AddResultFront(results, rec) == <<rec>> \o results

\* scan_results.append(...)
AddResult(results, rec) == Append(results, rec)

\* ScanCatches narrowed to `except KeyError`
ScanCatchesKeyError(e) == e = "KeyError"

\* `except Exception as e: continue` (lines 186-188)
ScanCatches(e) == e \in ExceptionClasses

---------------------------------------------------------------------------
(* One iteration of the scan loop (lines 130-188) *)

\* o is what the provider and the ta library give for this symbol:
\*   att1      "ok", or the one yf.download call fails: "raise" (it raises) or
\*             "empty" (yfinance swallows the error and returns an empty frame)
\*   transient a second call would succeed and return bars
\*   bars      the rows the provider has for the symbol
\*   taRaises  an indicator constructor or column raises on this frame
\*   ta        the RSI / ADX / DI / stochastic columns the ta library computes
Iterate(ticker, o) ==
    LET df == IF o.att1 = "ok" THEN o.bars ELSE <<>>
        n == Len(df)
        skip == [attempts |-> 1, len |-> n, computed |-> FALSE, raised |-> NoExc,
                 matched |-> FALSE, yesterday |-> NoRow]
    IN  IF o.att1 = "raise"
            THEN [skip EXCEPT !.len = 0 - 1, !.raised = "TimeoutError"]
        ELSE IF TooShort(n) THEN skip
        ELSE IF o.taRaises THEN [skip EXCEPT !.raised = "ValueError"]
        ELSE IF YesterdayIndex(n) \notin 1..n
            THEN [skip EXCEPT !.computed = TRUE, !.raised = "IndexError"]
        ELSE LET y == Row(df, o.ta, YesterdayIndex(n))
             IN  IF ~ExplosionCriteria(y)
                     THEN [skip EXCEPT !.computed = TRUE, !.yesterday = y]
                 ELSE IF RecordRaises(y)
                     THEN [skip EXCEPT !.computed = TRUE, !.yesterday = y,
                                       !.raised = "ValueError"]
                 ELSE [skip EXCEPT !.computed = TRUE, !.yesterday = y,
                                   !.matched = TRUE]

\* the iteration on the next symbol, the provider giving o
ScanTicker(o) ==
    /\ pc = "scan"
    /\ i < Len(tickers)
    /\ LET ticker == tickers[i + 1]
           r == Iterate(ticker, o)
           propagates == r.raised # NoExc /\ ~ScanCatches(r.raised)
       IN  /\ feed' = o
           /\ attempted' = Append(attempted, ticker)
           /\ cur' = [ticker |-> ticker, attempts |-> r.attempts,
                      len |-> r.len, computed |-> r.computed,
                      raised |-> r.raised, matched |-> r.matched,
                      yesterday |-> r.yesterday]
           /\ scan_results' =
                 IF r.matched
                     THEN AddResult(scan_results, MatchRecord(ticker, r.yesterday))
                     ELSE scan_results
           /\ matchedAt' =
                 IF r.matched THEN Append(matchedAt, i + 1) ELSE matchedAt
           /\ pc' = IF propagates THEN "crashed" ELSE pc
           /\ i' = IF propagates THEN i ELSE i + 1
    /\ UNCHANGED <<tickers, consulted>>

\* the loop is exhausted: lines 190-223 display scan_results
Finish ==
    /\ pc = "scan"
    /\ i = Len(tickers)
    /\ pc' = "done"
    /\ UNCHANGED <<tickers, consulted, i, scan_results, matchedAt, attempted, feed, cur>>

---------------------------------------------------------------------------
(* What the data provider and the ta library may give (lines 137, 143-152) *)

Bar(c, v) == [Close |-> c, Volume |-> v]

Ta(rsi, adx, pdi, mdi, k, d) ==
    [RSI |-> rsi, ADX |-> adx, PlusDI |-> pdi, MinusDI |-> mdi, K |-> k, D |-> d]

\* close 10, volume 1,000,000
ExampleBar == Bar(10 * Mills, 1000000)

\* the same bar at close 20
FarBar == Bar(20 * Mills, 1000000)

\* RSI 68, ADX 45, +DI 32, -DI 20, %K 75, %D 60
ExampleTa == Ta(68 * Mills, 45 * Mills, 32 * Mills, 20 * Mills, 75 * Mills, 60 * Mills)

\* the same readings with the RSI lookback not satisfied
NoRsiTa == [ExampleTa EXCEPT !.RSI = NaN]

\* an unremarkable session
QuietBar == Bar(10 * Mills, 100)

QuietTa == Ta(50 * Mills, 20 * Mills, 20 * Mills, 20 * Mills, 50 * Mills, 50 * Mills)

\* volumes of the earlier sessions, repeating every three rows; nine of them
\* total 3,000,000 in the first pattern, so Vol10Avg of ExampleBar is 400,000
ExampleCycle == <<300000, 300000, 400000>>

Cycles ==
    {ExampleCycle, <<0, 0, 0>>, <<222222, 222222, 222223>>, <<NaN, 300000, 300000>>}

\* an n-row frame: the last row is today's, the one before it yesterday's
MkBars(n, cyc, y, t) ==
    [k \in 1..n |->
        IF k = n THEN t
        ELSE IF k = n - 1 THEN y
        ELSE Bar(10 * Mills, cyc[(k % 3) + 1])]

MkTa(n, yta, tta) ==
    [k \in 1..n |-> IF k = n THEN tta ELSE IF k = n - 1 THEN yta ELSE QuietTa]

Offer(a, tr, bars, raises, ta) ==
    [att1 |-> a, transient |-> tr, bars |-> bars, taRaises |-> raises, ta |-> ta]

NoFeed == Offer("none", FALSE, <<>>, FALSE, <<>>)

\* the symbols the provider has data for ("BRK.B" is listed as "BRK-B")
ActiveSymbols == {"AAPL", "BRK-B"}

SeriesLengths == {0, 1, MinBars - 1} \cup (MinBars..(MinBars + MaxExtraBars))

\* the one call fails: for good, or once (a second call would return the example)
FailedAttempts == {"raise", "empty"} \X BOOLEAN

\* what the provider may give for a symbol it has data for
ActiveOffers ==
    {Offer("ok", FALSE, MkBars(n, ExampleCycle, y, QuietBar), raises,
           MkTa(n, yta, QuietTa)) :
        n \in SeriesLengths, y \in {ExampleBar, FarBar},
        yta \in {ExampleTa, NoRsiTa}, raises \in BOOLEAN}
    \cup
    {Offer(a[1], a[2], MkBars(MinBars, ExampleCycle, ExampleBar, QuietBar), FALSE,
           MkTa(MinBars, ExampleTa, QuietTa)) : a \in FailedAttempts}

\* an unknown or delisted symbol: the call raises, or returns an empty frame
InactiveOffers ==
    {Offer("raise", FALSE, <<>>, FALSE, <<>>), Offer("empty", FALSE, <<>>, FALSE, <<>>)}

\* the scenarios of the whole-program specification
ScenarioOffers(sym) ==
    IF sym \in ActiveSymbols THEN ActiveOffers ELSE InactiveOffers

CloseValues == {2999, 3 * Mills, 10 * Mills, 15 * Mills, 15001, 20 * Mills}

VolumeValues == {500000, 500001, 1000000}

AdxValues == {NaN, 39999, 40 * Mills, 45 * Mills}

PlusDIValues == {NaN, 31999, 32 * Mills}

MinusDIValues == {NaN, 20 * Mills, 22 * Mills}

RsiValues == {NaN, 59999, 60 * Mills, 68 * Mills, 75 * Mills, 75001}

KValues == {NaN, 70 * Mills, 70001, 75 * Mills}

DValues == {NaN, 60 * Mills, 75 * Mills}

\* yesterday's row and the earlier volumes: <<close, volume, cycle, RSI, ADX, +DI, -DI, %K, %D>>
Readings ==
    CloseValues \X VolumeValues \X Cycles \X RsiValues \X AdxValues
        \X PlusDIValues \X MinusDIValues \X KValues \X DValues

ExampleReading ==
    <<ExampleBar.Close, ExampleBar.Volume, ExampleCycle, ExampleTa.RSI, ExampleTa.ADX,
      ExampleTa.PlusDI, ExampleTa.MinusDI, ExampleTa.K, ExampleTa.D>>

\* in how many places a reading differs from the example
Deviations(p) == Cardinality({f \in 1..Len(p) : p[f] # ExampleReading[f]})

\* today's row: an unremarkable one, or one that meets every criterion
Todays == {<<QuietBar, QuietTa>>, <<ExampleBar, ExampleTa>>}

\* every reading within MaxDeviations places of the example, on a long-enough frame
NearExampleOffers ==
    {Offer("ok", FALSE, MkBars(n, p[3], Bar(p[1], p[2]), t[1]), FALSE,
           MkTa(n, Ta(p[4], p[5], p[6], p[7], p[8], p[9]), t[2])) :
        n \in MinBars..(MinBars + MaxExtraBars),
        p \in {q \in Readings : Deviations(q) <= MaxDeviations},
        t \in Todays}

ProductOffers(sym) == NearExampleOffers

---------------------------------------------------------------------------
(* Specifications *)

NoCur ==
    [ticker |-> "", attempts |-> 0, len |-> 0 - 1, computed |-> FALSE,
     raised |-> NoExc, matched |-> FALSE, yesterday |-> NoRow]

Init ==
    /\ pc = "primary"
    /\ tickers = <<>>
    /\ consulted = <<>>
    /\ i = 0
    /\ scan_results = <<>>
    /\ matchedAt = <<>>
    /\ attempted = <<>>
    /\ feed = NoFeed
    /\ cur = NoCur

ScanStep ==
    /\ pc = "scan"
    /\ i < Len(tickers)
    /\ \E o \in ScenarioOffers(tickers[i + 1]) : ScanTicker(o)

Next == LoadPrimary \/ LoadWikipedia \/ LoadSample \/ ScanStep \/ Finish

\* the whole script
Spec == Init /\ [][Next]_vars

\* the script runs on: no step of it waits for anything but its own calls
FairSpec == Spec /\ WF_vars(Next)

\* the scan loop over a one-symbol universe, fed every combination of readings
EvalInit ==
    /\ pc = "scan"
    /\ tickers = <<"AAPL">>
    /\ consulted = <<[source |-> "datahub", ok |-> TRUE]>>
    /\ i = 0
    /\ scan_results = <<>>
    /\ matchedAt = <<>>
    /\ attempted = <<>>
    /\ feed = NoFeed
    /\ cur = NoCur

EvalStep ==
    /\ pc = "scan"
    /\ i < Len(tickers)
    /\ \E o \in ProductOffers(tickers[i + 1]) : ScanTicker(o)

EvalNext == EvalStep \/ Finish

EvalSpec == EvalInit /\ [][EvalNext]_vars

---------------------------------------------------------------------------
(* Properties *)

NoDuplicates(seq) ==
    \A a, b \in 1..Len(seq) : a # b => seq[a] # seq[b]

\* the scan has a record for the symbol
Reported(sym) == \E k \in 1..Len(scan_results) : scan_results[k].Ticker = sym

\* the last iteration fetched a frame of at least 20 rows and attached its indicators
LongFrame == feed.att1 = "ok" /\ Len(feed.bars) >= 20 /\ ~feed.taRaises

\* the second-to-last row of the fetched frame, read off the provider's data
SecondToLastBar == feed.bars[Len(feed.bars) - 1]

SecondToLastTa == feed.ta[Len(feed.bars) - 1]

\* the ten volumes ending at the second-to-last row
TrailingVolumes ==
    {feed.bars[j].Volume : j \in (Len(feed.bars) - 10)..(Len(feed.bars) - 1)}

TrailingTotal == SumVolume(feed.bars, Len(feed.bars) - 10, Len(feed.bars) - 1)

\* the rule of the claim, in thousandths, on valid numbers only
SatisfiesRule ==
    LET b == SecondToLastBar
        t == SecondToLastTa
    IN  /\ \A x \in {b.Close, b.Volume, t.RSI, t.ADX, t.PlusDI, t.MinusDI, t.K, t.D}
                     \cup TrailingVolumes : x # NaN
        /\ 3000 <= b.Close /\ b.Close <= 15000
        /\ b.Volume > 500000
        /\ t.ADX >= 40000
        /\ t.PlusDI - t.MinusDI >= 10000
        /\ 60000 <= t.RSI /\ t.RSI <= 75000
        /\ t.K > 70000
        /\ t.K > t.D
        /\ 10 * b.Volume > 2 * TrailingTotal

\* the bar of the claim: close 10, volume 1,000,000, ADX 45, spread 12, RSI 68,
\* %K 75, %D 60, Vol10Avg 400,000
IsExample(close) ==
    /\ SecondToLastBar = [Close |-> close, Volume |-> 1000000]
    /\ SecondToLastTa.ADX = 45000
    /\ SecondToLastTa.PlusDI - SecondToLastTa.MinusDI = 12000
    /\ SecondToLastTa.RSI = 68000
    /\ SecondToLastTa.K = 75000 /\ SecondToLastTa.D = 60000
    /\ NaN \notin TrailingVolumes /\ TrailingTotal = 4000000

InvalidField ==
    \/ \E x \in {SecondToLastTa.RSI, SecondToLastTa.ADX, SecondToLastTa.PlusDI,
                 SecondToLastTa.MinusDI, SecondToLastTa.K, SecondToLastTa.D} : x = NaN
    \/ NaN \in TrailingVolumes

\* C7: when RSI, ADX, +DI, -DI, %K, %D or Vol10Avg of the evaluated bar is
\* not-a-number, the iteration produces no record and raises nothing.
C7_InvalidFieldNoMatch ==
    (LongFrame /\ InvalidField) =>
        /\ ~Reported(cur.ticker)
        /\ cur.raised = NoExc
        /\ pc # "crashed"

\* the example bar with %D alone invalid was evaluated and not reported
C7_Witness ==
    /\ LongFrame
    /\ cur.computed
    /\ SecondToLastBar = ExampleBar
    /\ SecondToLastTa = [ExampleTa EXCEPT !.D = NaN]
    /\ NaN \notin TrailingVolumes /\ TrailingTotal = 4000000
    /\ scan_results = <<>>

Resolved == pc \in {"scan", "done"}

\* the frame the last iteration's download returned, when it returned one
Fetched == feed.att1 \in {"ok", "empty"}

FetchedLen == IF feed.att1 = "ok" THEN Len(feed.bars) ELSE 0

\* the last iteration added a record
RecordedLast == \E k \in 1..Len(matchedAt) : matchedAt[k] = Len(attempted)

\* the last iteration hit a per-symbol failure: a failed download, or an exception
FailedLast == feed.att1 \in {"raise", "empty"} \/ cur.raised # NoExc

C2_Safe ==
    /\ pc # "crashed"
    /\ Resolved => /\ i <= Len(tickers)
                   /\ attempted = SubSeq(tickers, 1, i)
    /\ pc = "done" => attempted = tickers

C2_FailureStep ==
    (attempted' # attempted /\ FailedLast') =>
        /\ scan_results' = scan_results
        /\ i' = i + 1
        /\ pc' = "scan"

\* C2: whatever fails on a symbol, the loop never raises: the result list is left
\* as it was, the loop moves to the next symbol, every symbol is attempted exactly
\* once in universe order, and the loop terminates.
C2_LoopSurvivesFailures ==
    /\ []C2_Safe
    /\ [][C2_FailureStep]_vars
    /\ <>(pc = "done")

\* the first symbol failed, the second was still scanned and matched, the loop ended
C2_Witness ==
    /\ pc = "done"
    /\ tickers = <<"BRK.B", "AAPL">>
    /\ attempted = tickers
    /\ matchedAt = <<2>>

\* C3: resolution never raises and always ends with a non-empty list.
C3_NeverEmpty ==
    /\ pc # "crashed"
    /\ Resolved => Len(tickers) > 0

BothRemoteFailed ==
    /\ Len(consulted) >= 2
    /\ ~consulted[1].ok
    /\ ~consulted[2].ok

SourceOrder == <<"datahub", "wikipedia", "sample">>

\* C4: when datahub and Wikipedia both fail the universe is exactly the embedded
\* list, non-empty and without a repeated symbol; and a source is consulted only
\* after every earlier one has failed.
C4_FallbackList ==
    /\ (Resolved /\ BothRemoteFailed) =>
          /\ tickers = SampleTickers
          /\ Len(tickers) = 48
          /\ NoDuplicates(tickers)
    /\ Len(consulted) <= 3
    /\ \A k \in 1..Len(consulted) :
          /\ consulted[k].source = SourceOrder[k]
          /\ \A j \in 1..(k - 1) : ~consulted[j].ok

\* both remote sources failed and the scan starts on the embedded list
C4_Witness ==
    /\ pc = "scan"
    /\ Len(consulted) = 3
    /\ BothRemoteFailed
    /\ tickers[1] = "AAPL" /\ tickers[48] = "BOX"

\* C5: the resolved universe never holds a symbol twice (rows that are not
\* symbols at all, the missing cells, set aside).
C5_NoRepeatedSymbol ==
    Resolved =>
        \A a, b \in 1..Len(tickers) :
            (a # b /\ tickers[a] # NonStr) => tickers[a] # tickers[b]

\* C6: a fetched series of fewer than 20 bars gets no indicators, no record and no
\* exception; a series of at least 20 bars has its second-to-last bar.
C6_ShortSeriesSkipped ==
    /\ (Fetched /\ FetchedLen < 20) =>
          /\ ~cur.computed
          /\ ~RecordedLast
          /\ cur.raised = NoExc
          /\ pc # "crashed"
    /\ (Fetched /\ FetchedLen >= 20) =>
          /\ FetchedLen - 1 \in 1..FetchedLen
          /\ cur.raised # "IndexError"
          /\ cur.computed => cur.yesterday.Close = SecondToLastBar.Close

\* a frame of 19 bars whose second-to-last bar is the example was fetched and skipped
C6_Witness ==
    /\ feed.att1 = "ok"
    /\ Len(feed.bars) = 19
    /\ ~feed.taRaises
    /\ IsExample(10000)
    /\ cur.len = 19
    /\ ~cur.computed
    /\ scan_results = <<>>

\* C8: a download that fails on its first attempt and would succeed on a second
\* is retried and its bars are evaluated as usual.
C8_TransientRetried ==
    (feed.att1 \in {"raise", "empty"} /\ feed.transient) =>
        /\ cur.attempts >= 2
        /\ cur.matched = Iterate(cur.ticker, [feed EXCEPT !.att1 = "ok"]).matched

C9_Inv ==
    /\ Len(matchedAt) = Len(scan_results)
    /\ \A k \in 1..Len(scan_results) :
          /\ matchedAt[k] \in 1..Len(attempted)
          /\ scan_results[k].Ticker = tickers[matchedAt[k]]
          /\ \A j \in 1..(k - 1) : matchedAt[j] < matchedAt[k]

C9_Step ==
    /\ Len(scan_results') \in {Len(scan_results), Len(scan_results) + 1}
    /\ SubSeq(scan_results', 1, Len(scan_results)) = scan_results
    /\ Len(scan_results') > Len(scan_results) => attempted' # attempted

\* C9: the result list is append-only and its tickers are a subsequence of the
\* processed prefix of the universe: records come in scan order, a position gives
\* at most one record, and no record is removed or changed.
C9_AppendOnlyInScanOrder ==
    /\ []C9_Inv
    /\ [][C9_Step]_vars

\* two different symbols have matched, in universe order
C9_Witness ==
    /\ Len(scan_results) = 2
    /\ scan_results[1].Ticker = "AAPL"
    /\ scan_results[2].Ticker = "BRK-B"
    /\ matchedAt = <<1, 2>>

============================================================================
